---- MODULE Spec2Model ----
(***************************************************************************)
(* A model of glean's network path (src/glean/cmd.py):                     *)
(*   get_config_drive_interfaces  -> the Interface Normalizer              *)
(*   get_sys_interfaces / interface_live / is_interface_live -> the Prober *)
(*   write_debian_interfaces / write_redhat_interfaces -> the Renderers    *)
(*   finish_files -> the Writer                                            *)
(* Python dicts are functions, lists are sequences, a raised exception is  *)
(* a record naming the exception and the line that raises it.              *)
(***************************************************************************)
EXTENDS Integers, Sequences, FiniteSets, TLC

VARIABLES
    pc,             \* where write_network_info_from_config_drive stands
    net,            \* network_info, the metadata document (lines 377-383)
    visit,          \* the order the merge pass took over tmp_links.values()
    normalized,     \* what get_config_drive_interfaces returned or raised
    args,           \* the parsed command line: noop, distro, interface
    sysfs,          \* <root>/sys/class/net: per device its files and its carrier
    disk,           \* the files on disk, path -> content
    todo,           \* get_sys_interfaces: the devices still to visit
    x,              \* interface_live: the poll loop's counter
    ip_up,          \* per device, how often 'ip link set dev <iface> up' ran
    reads,          \* per device, how often its carrier file was read
    sys_interfaces, \* get_sys_interfaces: hardware address -> device name
    files_to_write, \* the renderer's result merged over the dns file
    emitted,        \* finish_files: the files written or printed, in order
    opened,         \* every path opened for writing, in order
    runs,           \* what each completed call of finish_files emitted
    raised          \* the exception that ended the run, if one did

vars == <<pc, net, visit, normalized, args, sysfs, disk, todo, x, ip_up, reads,
          sys_interfaces, files_to_write, emitted, opened, runs, raised>>

(***************************************************************************)
(* Python values and dict operations.                                      *)
(***************************************************************************)
\* None: a value no string equals
None == <<-1>>

EmptyDict == [k \in {} |-> None]

\* d.update(e): e's items win.
Update(d, e) == [k \in DOMAIN d \cup DOMAIN e |-> IF k \in DOMAIN e THEN e[k] ELSE d[k]]

\* d[k] = v
Put(d, k, v) == [j \in DOMAIN d \cup {k} |-> IF j = k THEN v ELSE d[j]]

\* del d[k] for every k of ks that d has
Without(d, ks) == [j \in DOMAIN d \ ks |-> d[j]]

Range(f) == {f[k] : k \in DOMAIN f}

\* every ordering of a finite set, as sequences without repetition
Orderings(S) == {s \in [1..Cardinality(S) -> S] : \A i, j \in DOMAIN s : i # j => s[i] # s[j]}

Ok(v) == [err |-> "", line |-> 0, val |-> v]

NoException == [err |-> "", line |-> 0]

Raise(e, l) == [err |-> e, line |-> l, val |-> EmptyDict]

(***************************************************************************)
(* Strings are sequences of character codes, so that formatting, joining, *)
(* str.lower and the order of sorted() are computed, not assumed.          *)
(***************************************************************************)
\* "FA:16:3E:00:00:0A"  (a hardware address as the metadata may spell it)
MacA == <<70, 65, 58, 49, 54, 58, 51, 69, 58, 48, 48, 58, 48, 48, 58, 48, 65>>

\* "fa:16:3e:00:00:0a"
maca == <<102, 97, 58, 49, 54, 58, 51, 101, 58, 48, 48, 58, 48, 48, 58, 48, 97>>

\* "fa:16:3e:00:00:0b"
macb == <<102, 97, 58, 49, 54, 58, 51, 101, 58, 48, 48, 58, 48, 48, 58, 48, 98>>

\* "fa:16:3e:00:00:0c"
macc == <<102, 97, 58, 49, 54, 58, 51, 101, 58, 48, 48, 58, 48, 48, 58, 48, 99>>

\* "fa:16:3e:00:00:5f"
macv == <<102, 97, 58, 49, 54, 58, 51, 101, 58, 48, 48, 58, 48, 48, 58, 53, 102>>

\* "lo"
lo == <<108, 111>>

\* "eth0"
eth0 == <<101, 116, 104, 48>>

\* "eth1"
eth1 == <<101, 116, 104, 49>>

\* "network0"
network0 == <<110, 101, 116, 119, 111, 114, 107, 48>>

\* "network1"
network1 == <<110, 101, 116, 119, 111, 114, 107, 49>>

\* "network2"
network2 == <<110, 101, 116, 119, 111, 114, 107, 50>>

\* "0.0.0.0"
zeros == <<48, 46, 48, 46, 48, 46, 48>>

\* "10.0.0.5"
ip_a == <<49, 48, 46, 48, 46, 48, 46, 53>>

\* "2001:db8::5"
ip6_a == <<50, 48, 48, 49, 58, 100, 98, 56, 58, 58, 53>>

\* "255.255.255.0"
mask24 == <<50, 53, 53, 46, 50, 53, 53, 46, 50, 53, 53, 46, 48>>

\* "ffff:ffff:ffff:ffff::"
mask64 == <<102, 102, 102, 102, 58, 102, 102, 102, 102, 58, 102, 102, 102, 102, 58, 102, 102, 102, 102, 58, 58>>

\* "10.0.0.1"
gw_a == <<49, 48, 46, 48, 46, 48, 46, 49>>

\* "10.0.0.254"
gw_b == <<49, 48, 46, 48, 46, 48, 46, 50, 53, 52>>

\* "192.168.1.0"
net_b == <<49, 57, 50, 46, 49, 54, 56, 46, 49, 46, 48>>

\* "8.8.8.8"
dns_a == <<56, 46, 56, 46, 56, 46, 56>>

\* "/etc/network/interfaces"  (line 146)
eni_path == <<47, 101, 116, 99, 47, 110, 101, 116, 119, 111, 114, 107, 47, 105, 110, 116, 101, 114, 102, 97, 99, 101, 115>>

\* ".d"  (line 147)
dot_d == <<46, 100>>

\* "/"  (os.path.join)
slash == <<47>>

\* "."  (lines 116, 162)
dot == <<46>>

\* ".cfg"  (lines 165, 210)
dot_cfg == <<46, 99, 102, 103>>

\* "/etc/sysconfig/network-scripts/ifcfg-"  (lines 39, 82, 88)
rh_ifcfg == <<47, 101, 116, 99, 47, 115, 121, 115, 99, 111, 110, 102, 105, 103, 47, 110, 101, 116, 119, 111, 114, 107, 45, 115, 99, 114, 105, 112, 116, 115, 47, 105, 102, 99, 102, 103, 45>>

\* "/etc/sysconfig/network-scripts/route-"  (line 80)
rh_route == <<47, 101, 116, 99, 47, 115, 121, 115, 99, 111, 110, 102, 105, 103, 47, 110, 101, 116, 119, 111, 114, 107, 45, 115, 99, 114, 105, 112, 116, 115, 47, 114, 111, 117, 116, 101, 45>>

\* "/etc/resolv.conf"  (line 219)
resolv_conf == <<47, 101, 116, 99, 47, 114, 101, 115, 111, 108, 118, 46, 99, 111, 110, 102>>

\* "auto lo"  (line 149)
t_auto_lo == <<97, 117, 116, 111, 32, 108, 111>>

\* "iface lo inet loopback"  (line 149)
t_iface_lo == <<105, 102, 97, 99, 101, 32, 108, 111, 32, 105, 110, 101, 116, 32, 108, 111, 111, 112, 98, 97, 99, 107>>

\* "source /etc/network/interfaces.d/*.cfg"  (line 150)
t_source == <<115, 111, 117, 114, 99, 101, 32, 47, 101, 116, 99, 47, 110, 101, 116, 119, 111, 114, 107, 47, 105, 110, 116, 101, 114, 102, 97, 99, 101, 115, 46, 100, 47, 42, 46, 99, 102, 103>>

\* "auto "  (lines 168, 182, 208)
t_auto == <<97, 117, 116, 111, 32>>

\* "iface "  (lines 169, 183, 209)
t_iface == <<105, 102, 97, 99, 101, 32>>

\* " inet dhcp"  (lines 169, 209)
t_inet_dhcp == <<32, 105, 110, 101, 116, 32, 100, 104, 99, 112>>

\* " "  (line 183)
t_space == <<32>>

\* " static"  (line 183)
t_static == <<32, 115, 116, 97, 116, 105, 99>>

\* "inet"  (line 177)
t_inet == <<105, 110, 101, 116>>

\* "inet6"  (line 175)
t_inet6 == <<105, 110, 101, 116, 54>>

\* "    vlan-raw-device "  (lines 171, 186)
t_vlan_raw == <<32, 32, 32, 32, 118, 108, 97, 110, 45, 114, 97, 119, 45, 100, 101, 118, 105, 99, 101, 32>>

\* "    address "  (line 187)
t_address == <<32, 32, 32, 32, 97, 100, 100, 114, 101, 115, 115, 32>>

\* "    netmask "  (line 188)
t_netmask == <<32, 32, 32, 32, 110, 101, 116, 109, 97, 115, 107, 32>>

\* "    gateway "  (line 191)
t_gateway == <<32, 32, 32, 32, 103, 97, 116, 101, 119, 97, 121, 32>>

\* "    post-up route add -net "  (line 30)
t_post_up == <<32, 32, 32, 32, 112, 111, 115, 116, 45, 117, 112, 32, 114, 111, 117, 116, 101, 32, 97, 100, 100, 32, 45, 110, 101, 116, 32>>

\* "    pre-down route del -net "  (line 31)
t_pre_down == <<32, 32, 32, 32, 112, 114, 101, 45, 100, 111, 119, 110, 32, 114, 111, 117, 116, 101, 32, 100, 101, 108, 32, 45, 110, 101, 116, 32>>

\* " netmask "  (lines 30-31)
t_rt_netmask == <<32, 110, 101, 116, 109, 97, 115, 107, 32>>

\* " gw "  (lines 30-31)
t_rt_gw == <<32, 103, 119, 32>>

\* " || true"  (lines 30-31)
t_or_true == <<32, 124, 124, 32, 116, 114, 117, 101>>

\* "# Automatically generated, do not edit"  (lines 47, 89)
t_generated == <<35, 32, 65, 117, 116, 111, 109, 97, 116, 105, 99, 97, 108, 108, 121, 32, 103, 101, 110, 101, 114, 97, 116, 101, 100, 44, 32, 100, 111, 32, 110, 111, 116, 32, 101, 100, 105, 116>>

\* "DEVICE="  (lines 48, 90)
t_DEVICE == <<68, 69, 86, 73, 67, 69, 61>>

\* "BOOTPROTO=static"  (line 49)
t_BOOTPROTO_static == <<66, 79, 79, 84, 80, 82, 79, 84, 79, 61, 115, 116, 97, 116, 105, 99>>

\* "BOOTPROTO=dhcp"  (line 91)
t_BOOTPROTO_dhcp == <<66, 79, 79, 84, 80, 82, 79, 84, 79, 61, 100, 104, 99, 112>>

\* "HWADDR="  (lines 50, 92)
t_HWADDR == <<72, 87, 65, 68, 68, 82, 61>>

\* "IPADDR="  (line 51)
t_IPADDR == <<73, 80, 65, 68, 68, 82, 61>>

\* "NETMASK="  (line 52)
t_NETMASK == <<78, 69, 84, 77, 65, 83, 75, 61>>

\* "ONBOOT=yes"  (lines 53, 93)
t_ONBOOT == <<79, 78, 66, 79, 79, 84, 61, 121, 101, 115>>

\* "NM_CONTROLLED=no"  (lines 54, 94)
t_NM_CONTROLLED == <<78, 77, 95, 67, 79, 78, 84, 82, 79, 76, 76, 69, 68, 61, 110, 111>>

\* "TYPE=Ethernet"  (line 95)
t_TYPE == <<84, 89, 80, 69, 61, 69, 116, 104, 101, 114, 110, 101, 116>>

\* "VLAN=yes"  (lines 63, 98)
t_VLAN == <<86, 76, 65, 78, 61, 121, 101, 115>>

\* "DEFROUTE=yes"  (line 67)
t_DEFROUTE == <<68, 69, 70, 82, 79, 85, 84, 69, 61, 121, 101, 115>>

\* "GATEWAY="  (line 68)
t_GATEWAY_eq == <<71, 65, 84, 69, 87, 65, 89, 61>>

\* "ADDRESS"  (line 77)
t_ADDRESS == <<65, 68, 68, 82, 69, 83, 83>>

\* "NETMASK"  (line 78)
t_NETMASKx == <<78, 69, 84, 77, 65, 83, 75>>

\* "GATEWAY"  (line 79)
t_GATEWAY == <<71, 65, 84, 69, 87, 65, 89>>

\* "="  (lines 77-79)
t_eq == <<61>>

\* "nameserver "  (line 218)
t_nameserver == <<110, 97, 109, 101, 115, 101, 114, 118, 101, 114, 32>>

\* str.lower()
lower(s) == [i \in DOMAIN s |-> IF s[i] \in 65..90 THEN s[i] + 32 ELSE s[i]]

\* str(n) for a number n >= 0, as "{0}".format(n) prints it
RECURSIVE DecStr(_)
DecStr(n) == IF n < 10 THEN <<48 + n>> ELSE DecStr(n \div 10) \o <<48 + (n % 10)>>

\* a < b as Python orders strings
LexLess(a, b) ==
    \E i \in 1..Len(b) :
        /\ i <= Len(a) + 1
        /\ \A j \in 1..(i - 1) : a[j] = b[j]
        /\ IF i = Len(a) + 1 THEN TRUE ELSE a[i] < b[i]

\* sorted(...): P is a set of [key, val] with distinct keys; the vals by ascending
\* key, the i-th being the one with i - 1 smaller keys
Sorted(P) ==
    [i \in 1..Cardinality(P) |->
        (CHOOSE e \in P : Cardinality({o \in P : LexLess(o.key, e.key)}) = i - 1).val]

(***************************************************************************)
(* get_config_drive_interfaces                                             *)
(***************************************************************************)
\* lines 233-234: tmp_ifaces[network['link']] = network, a later network wins
RECURSIVE IndexNetworks(_, _)
IndexNetworks(networks, tmp_ifaces) ==
    IF networks = <<>> THEN tmp_ifaces
    ELSE IndexNetworks(Tail(networks), Put(tmp_ifaces, Head(networks).link, Head(networks)))

\* lines 235-236: tmp_links[link['id']] = link
RECURSIVE IndexLinks(_, _)
IndexLinks(links, tmp_links) ==
    IF links = <<>> THEN tmp_links
    ELSE IndexLinks(Tail(links), Put(tmp_links, Head(links).id, Head(links)))

\* lines 244-245: link.get('ethernet_mac_address', link.get('vlan_mac_address'))
GetMac(link) ==
    IF "ethernet_mac_address" \in DOMAIN link THEN link.ethernet_mac_address
    ELSE IF "vlan_mac_address" \in DOMAIN link THEN link.vlan_mac_address
    ELSE None

\* lines 239-248, one iteration: the body of the loop for the link stored under k.
\* The parent is read as it is NOW in tmp_links (the loop mutates links in place).
MergeLink(tmp_links, k) ==
    LET link == tmp_links[k]
        parent == IF link.type = "vlan" /\ link.vlan_link \in DOMAIN tmp_links
                  THEN tmp_links[link.vlan_link] ELSE EmptyDict
        new_link == Update(parent, link)
        merged == IF link.type = "vlan" THEN Update(link, new_link) ELSE link
        withmac == Put(merged, "mac_address", GetMac(merged))
    IN  Put(tmp_links, k, Without(withmac, {"ethernet_mac_address", "vlan_mac_address"}))

\* lines 237-248: the merge pass over tmp_links.values() in the order `order`;
\* returns <<tmp_links, keys_to_del>>
RECURSIVE MergePass(_, _, _)
MergePass(tmp_links, keys_to_del, order) ==
    IF order = <<>> THEN <<tmp_links, keys_to_del>>
    ELSE LET k == Head(order)
             link == tmp_links[k]
             dels == IF link.type = "vlan" THEN Append(keys_to_del, link.vlan_link)
                     ELSE keys_to_del
         IN  MergePass(MergeLink(tmp_links, k), dels, Tail(order))

\* lines 249-250: del tmp_links[key], a KeyError when the key is not (or no longer) there
RECURSIVE DeleteKeys(_, _)
DeleteKeys(tmp_links, keys_to_del) ==
    IF keys_to_del = <<>> THEN Ok(tmp_links)
    ELSE IF Head(keys_to_del) \notin DOMAIN tmp_links THEN Raise("KeyError", 250)
    ELSE DeleteKeys(Without(tmp_links, {Head(keys_to_del)}), Tail(keys_to_del))

\* lines 251-254: every surviving link gives its mac_address (and vlan_id) to the
\* network that references it
AttachLinks(tmp_links, tmp_ifaces) ==
    IF \E k \in DOMAIN tmp_links : k \notin DOMAIN tmp_ifaces THEN Raise("KeyError", 252)
    ELSE Ok([k \in DOMAIN tmp_ifaces |->
             IF k \notin DOMAIN tmp_links THEN tmp_ifaces[k]
             ELSE LET link == tmp_links[k]
                      v == Put(tmp_ifaces[k], "mac_address", link.mac_address)
                  IN  IF "vlan_id" \in DOMAIN link THEN Put(v, "vlan_id", link.vlan_id) ELSE v])

\* lines 255-257: interfaces[v['mac_address'].lower()] = v over tmp_ifaces.items()
\* in the order `iorder`
RECURSIVE KeyByMac(_, _, _)
KeyByMac(tmp_ifaces, iorder, interfaces) ==
    IF iorder = <<>> THEN Ok(interfaces)
    ELSE LET k == Head(iorder)
             v == Put(tmp_ifaces[k], "link", k)
         IN  IF "mac_address" \notin DOMAIN v THEN Raise("KeyError", 257)
             ELSE IF v.mac_address = None THEN Raise("AttributeError", 257)
             ELSE KeyByMac(tmp_ifaces, Tail(iorder), Put(interfaces, lower(v.mac_address), v))

\* lines 222-258. order: the iteration order of tmp_links.values() (line 238);
\* iorder: the iteration order of tmp_ifaces.items() (line 255).
get_config_drive_interfaces(doc, order, iorder) ==
    IF "networks" \notin DOMAIN doc \/ "links" \notin DOMAIN doc THEN Ok(EmptyDict)
    ELSE LET tmp_ifaces == IndexNetworks(doc.networks, EmptyDict)
             tmp_links == IndexLinks(doc.links, EmptyDict)
             merged == MergePass(tmp_links, <<>>, order)
             deleted == DeleteKeys(merged[1], merged[2])
         IN  IF deleted.err # "" THEN deleted
             ELSE LET attached == AttachLinks(deleted.val, tmp_ifaces)
                  IN  IF attached.err # "" THEN attached
                      ELSE KeyByMac(attached.val, iorder, EmptyDict)

\* the keys of tmp_links and of tmp_ifaces, whose orderings the two loops may take
LinkIds(doc) == {doc.links[i].id : i \in DOMAIN doc.links}

NetworkLinks(doc) == {doc.networks[i].link : i \in DOMAIN doc.networks}

(***************************************************************************)
(* get_dns_from_config_drive and write_dns_info                            *)
(***************************************************************************)
\* lines 261-268
RECURSIVE DnsAddresses(_)
DnsAddresses(services) ==
    IF services = <<>> THEN <<>>
    ELSE (IF Head(services).type = "dns" THEN <<Head(services).address>> ELSE <<>>)
         \o DnsAddresses(Tail(services))

get_dns_from_config_drive(doc) ==
    IF "services" \notin DOMAIN doc THEN <<>> ELSE DnsAddresses(doc.services)

\* lines 214-219: one "nameserver <address>" line per server; no server, empty content
write_dns_info(dns_servers) ==
    [p \in {resolv_conf} |-> [i \in DOMAIN dns_servers |-> t_nameserver \o dns_servers[i]]]

(***************************************************************************)
(* The Device Prober: is_interface_live, interface_live, get_sys_interfaces *)
(***************************************************************************)
\* line 313: the errno of "link not ready"
EINVAL == 22

\* line 329: range(0, 50)
PollLimit == 50

\* lines 308-309: what the n-th read (n = 0, 1, ...) of <iface>/carrier gives: the
\* device's carrier reads "1" from its read number liveAt on; before that the read
\* gives "0" (errno 0) or fails with the device's errno.
ReadCarrier(dev, n) ==
    IF n >= sysfs[dev].liveAt THEN [data |-> "1", errno |-> 0]
    ELSE [data |-> "0", errno |-> sysfs[dev].errno]

\* lines 305-316: "True", "False", or "raise" for an IOError other than errno 22
is_interface_live(dev, n) ==
    LET r == ReadCarrier(dev, n)
    IN  IF r.errno = 0 THEN (IF r.data = "1" THEN "True" ELSE "False")
        ELSE IF r.errno # EINVAL THEN "raise"
        ELSE "False"

\* get_sys_interfaces without the test for 'lo' of line 344
Candidates_WithLoopback ==
    IF args.interface # None THEN {args.interface}
    ELSE DOMAIN sysfs

\* lines 342-345: the devices get_sys_interfaces visits
Candidates ==
    IF args.interface # None THEN {args.interface}
    ELSE {f \in DOMAIN sysfs : f # lo}

(***************************************************************************)
(* The renderers                                                           *)
(***************************************************************************)
\* lines 66 and 190: the default route
IsDefaultRoute(route) == route.network = zeros /\ route.netmask = zeros

\* lines 38-42
exists_rh_interface(name) == (rh_ifcfg \o name) \in DOMAIN disk

\* lines 65-72, the lines added to results: DEFROUTE and GATEWAY per default route
RECURSIVE RhGatewayLines(_)
RhGatewayLines(routes) ==
    IF routes = <<>> THEN <<>>
    ELSE (IF IsDefaultRoute(Head(routes))
          THEN <<t_DEFROUTE, t_GATEWAY_eq \o Head(routes).gateway>> ELSE <<>>)
         \o RhGatewayLines(Tail(routes))

\* _write_rh_interface appending every route to the list routes, the default
\* route too
RhRoutes_KeepsDefault(routes) == routes

\* lines 64-72, the list routes: every other route, in order
RECURSIVE RhRoutes(_)
RhRoutes(routes) ==
    IF routes = <<>> THEN <<>>
    ELSE (IF IsDefaultRoute(Head(routes)) THEN <<>> ELSE <<Head(routes)>>)
         \o RhRoutes(Tail(routes))

\* lines 75-79: ADDRESSx, NETMASKx, GATEWAYx for x = n, n+1, ...
RECURSIVE RhRouteContent(_, _)
RhRouteContent(routes, n) ==
    IF routes = <<>> THEN <<>>
    ELSE <<t_ADDRESS \o DecStr(n) \o t_eq \o Head(routes).network,
           t_NETMASKx \o DecStr(n) \o t_eq \o Head(routes).netmask,
           t_GATEWAY \o DecStr(n) \o t_eq \o Head(routes).gateway>>
         \o RhRouteContent(Tail(routes), n + 1)

\* lines 45-84
write_rh_interface(name, interface, has_vlan) ==
    IF "ip_address" \notin DOMAIN interface THEN Raise("KeyError", 58)
    ELSE IF "netmask" \notin DOMAIN interface THEN Raise("KeyError", 59)
    ELSE IF "routes" \notin DOMAIN interface THEN Raise("KeyError", 65)
    ELSE LET results == <<t_generated,
                          t_DEVICE \o name,
                          t_BOOTPROTO_static,
                          t_HWADDR \o interface.mac_address,
                          t_IPADDR \o interface.ip_address,
                          t_NETMASK \o interface.netmask,
                          t_ONBOOT,
                          t_NM_CONTROLLED>>
                         \o (IF has_vlan THEN <<t_VLAN>> ELSE <<>>)
                         \o RhGatewayLines(interface.routes)
             routes == RhRoutes(interface.routes)
             route_file == IF routes # <<>>
                           THEN [p \in {rh_route \o name} |-> RhRouteContent(routes, 0)]
                           ELSE EmptyDict
         IN  Ok(Put(route_file, rh_ifcfg \o name, results))

\* lines 87-99
write_rh_dhcp(name, hwaddr, has_vlan) ==
    [p \in {rh_ifcfg \o name} |->
        <<t_generated,
          t_DEVICE \o name,
          t_BOOTPROTO_dhcp,
          t_HWADDR \o hwaddr,
          t_ONBOOT,
          t_NM_CONTROLLED,
          t_TYPE>>
        \o (IF has_vlan THEN <<t_VLAN>> ELSE <<>>)]

\* sorted(interfaces.items(), key=lambda x: x[1]['id']) (lines 107 and 152): the keys
InterfacesById(interfaces) ==
    Sorted({[key |-> interfaces[m].id, val |-> m] : m \in DOMAIN interfaces})

\* sorted(sys_interfaces.items(), key=lambda x: x[1]) (lines 126 and 200): the keys
DevicesByName(sysifs) ==
    Sorted({[key |-> sysifs[m], val |-> m] : m \in DOMAIN sysifs})

\* lines 109-125, one iteration of the loop: the files it adds, or what it raises
RhInterface(iname, interfaces, sysifs) ==
    LET interface == interfaces[iname]
        has_vlan == "vlan_id" \in DOMAIN interface
        interface_name == IF has_vlan
                          THEN sysifs[iname] \o dot \o DecStr(interface.vlan_id)
                          ELSE sysifs[iname]
    IN  IF interface.type = "ipv6" THEN Ok(EmptyDict)
        ELSE IF iname \notin DOMAIN sysifs THEN Ok(EmptyDict)
        ELSE IF interface.type = "ipv4"
             THEN write_rh_interface(interface_name, interface, has_vlan)
        ELSE IF interface.type = "ipv4_dhcp"
             THEN Ok(write_rh_dhcp(interface_name, interface.mac_address, has_vlan))
        ELSE Ok(EmptyDict)

\* lines 107-125: the first loop
RECURSIVE RhInterfaces(_, _, _, _)
RhInterfaces(order, interfaces, sysifs, files) ==
    IF order = <<>> THEN Ok(files)
    ELSE LET r == RhInterface(Head(order), interfaces, sysifs)
         IN  IF r.err # "" THEN r
             ELSE RhInterfaces(Tail(order), interfaces, sysifs, Update(files, r.val))

\* the second loop of write_redhat_interfaces without the test of line 128
RhFallback_NoExistenceCheck(mac, interfaces, sysifs) ==
    IF mac \in DOMAIN interfaces THEN EmptyDict
    ELSE write_rh_dhcp(sysifs[mac], mac, FALSE)

\* lines 128-134, one iteration of the second loop: the DHCP fallback
RhFallback(mac, interfaces, sysifs) ==
    IF exists_rh_interface(sysifs[mac]) THEN EmptyDict
    ELSE IF mac \in DOMAIN interfaces THEN EmptyDict
    ELSE write_rh_dhcp(sysifs[mac], mac, FALSE)

\* lines 126-134: the second loop
RECURSIVE RhFallbacks(_, _, _, _)
RhFallbacks(order, interfaces, sysifs, files) ==
    IF order = <<>> THEN files
    ELSE RhFallbacks(Tail(order), interfaces, sysifs,
                     Update(files, RhFallback(Head(order), interfaces, sysifs)))

\* lines 102-135
write_redhat_interfaces(interfaces, sysifs) ==
    LET first == RhInterfaces(InterfacesById(interfaces), interfaces, sysifs, EmptyDict)
    IN  IF first.err # "" THEN first
        ELSE Ok(RhFallbacks(DevicesByName(sysifs), interfaces, sysifs, first.val))

\* lines 138-140
exists_debian_interface(name) == (eni_path \o dot_d \o slash \o name) \in DOMAIN disk

\* os.path.join(eni_d_path, '%s.cfg' % name) (lines 165 and 210)
DebianPath(name) == eni_path \o dot_d \o slash \o name \o dot_cfg

\* lines 189-198: a gateway line per default route, post-up and pre-down otherwise
RECURSIVE DebianRouteLines(_)
DebianRouteLines(routes) ==
    IF routes = <<>> THEN <<>>
    ELSE LET route == Head(routes)
         IN  (IF IsDefaultRoute(route)
              THEN <<t_gateway \o route.gateway>>
              ELSE <<t_post_up \o route.network \o t_rt_netmask \o route.netmask
                       \o t_rt_gw \o route.gateway \o t_or_true,
                     t_pre_down \o route.network \o t_rt_netmask \o route.netmask
                       \o t_rt_gw \o route.gateway \o t_or_true>>)
             \o DebianRouteLines(Tail(routes))

\* link_type before any assignment to it in the call
Unbound == <<-2>>

\* lines 167-173: the stanza of an ipv4_dhcp record
DebianDhcpStanza(interface_name, vlan_raw_device) ==
    <<t_auto \o interface_name, t_iface \o interface_name \o t_inet_dhcp>>
    \o (IF vlan_raw_device # None THEN <<t_vlan_raw \o vlan_raw_device>> ELSE <<>>)

\* lines 174-177: link_type after the if/elif, given what it was before
DebianLinkType(type, link_type) ==
    IF type = "ipv6" THEN t_inet6
    ELSE IF type = "ipv4" THEN t_inet
    ELSE link_type

\* lines 154-199, one iteration of the loop. st = [files, link_type] is what the
\* earlier iterations left; the result adds err and line.
DebianInterface(iname, interfaces, sysifs, st) ==
    LET interface == interfaces[iname]
        has_vlan == "vlan_id" \in DOMAIN interface
        vlan_raw_device == IF has_vlan THEN sysifs[iname] ELSE None
        interface_name == IF has_vlan
                          THEN sysifs[iname] \o dot \o DecStr(interface.vlan_id)
                          ELSE sysifs[iname]
        iface_path == DebianPath(interface_name)
        link_type == DebianLinkType(interface.type, st.link_type)
        keep == [err |-> "", line |-> 0, files |-> st.files, link_type |-> st.link_type]
        fail(e, l) == [err |-> e, line |-> l, files |-> st.files, link_type |-> link_type]
    IN  IF iname \notin DOMAIN sysifs THEN keep
        ELSE IF interface.type = "ipv4_dhcp"
             THEN [keep EXCEPT !.files =
                      Put(st.files, iface_path, DebianDhcpStanza(interface_name, vlan_raw_device))]
        ELSE IF link_type = Unbound THEN fail("UnboundLocalError", 179)
        ELSE IF link_type = <<>> THEN [keep EXCEPT !.link_type = link_type]
        ELSE IF "ip_address" \notin DOMAIN interface THEN fail("KeyError", 187)
        ELSE IF "netmask" \notin DOMAIN interface THEN fail("KeyError", 188)
        ELSE IF "routes" \notin DOMAIN interface THEN fail("KeyError", 189)
        ELSE [err |-> "", line |-> 0, link_type |-> link_type,
              files |-> Put(st.files, iface_path,
                 <<t_auto \o interface_name,
                   t_iface \o interface_name \o t_space \o link_type \o t_static>>
                 \o (IF vlan_raw_device # None THEN <<t_vlan_raw \o vlan_raw_device>> ELSE <<>>)
                 \o <<t_address \o interface.ip_address, t_netmask \o interface.netmask>>
                 \o DebianRouteLines(interface.routes))]

\* lines 152-199: the first loop
RECURSIVE DebianInterfaces(_, _, _, _)
DebianInterfaces(order, interfaces, sysifs, st) ==
    IF order = <<>> THEN Ok(st.files)
    ELSE LET r == DebianInterface(Head(order), interfaces, sysifs, st)
         IN  IF r.err # "" THEN Raise(r.err, r.line)
             ELSE DebianInterfaces(Tail(order), interfaces, sysifs,
                                   [files |-> r.files, link_type |-> r.link_type])

\* the second loop of write_debian_interfaces looking for the file it writes,
\* <name>.cfg, where line 202 looks for <name>
DebianFallback_ChecksCfg(mac, interfaces, sysifs) ==
    IF DebianPath(sysifs[mac]) \in DOMAIN disk THEN EmptyDict
    ELSE IF mac \in DOMAIN interfaces THEN EmptyDict
    ELSE [p \in {DebianPath(sysifs[mac])} |->
             <<t_auto \o sysifs[mac], t_iface \o sysifs[mac] \o t_inet_dhcp>>]

\* lines 202-210, one iteration of the second loop: the DHCP fallback
DebianFallback(mac, interfaces, sysifs) ==
    IF exists_debian_interface(sysifs[mac]) THEN EmptyDict
    ELSE IF mac \in DOMAIN interfaces THEN EmptyDict
    ELSE [p \in {DebianPath(sysifs[mac])} |->
             <<t_auto \o sysifs[mac], t_iface \o sysifs[mac] \o t_inet_dhcp>>]

\* lines 200-210: the second loop
RECURSIVE DebianFallbacks(_, _, _, _)
DebianFallbacks(order, interfaces, sysifs, files) ==
    IF order = <<>> THEN files
    ELSE DebianFallbacks(Tail(order), interfaces, sysifs,
                         Update(files, DebianFallback(Head(order), interfaces, sysifs)))

\* lines 149-150: the base file
EniBase == [p \in {eni_path} |-> <<t_auto_lo, t_iface_lo, t_source>>]

\* lines 143-211
write_debian_interfaces(interfaces, sysifs) ==
    LET first == DebianInterfaces(InterfacesById(interfaces), interfaces, sysifs,
                                  [files |-> EniBase, link_type |-> Unbound])
    IN  IF first.err # "" THEN first
        ELSE Ok(DebianFallbacks(DevicesByName(sysifs), interfaces, sysifs, first.val))

\* lines 276-286: the renderer of the distro; "False" when there is none
RenderFor(distro, interfaces, sysifs) ==
    IF distro \in {"debian", "ubuntu"} THEN write_debian_interfaces(interfaces, sysifs)
    ELSE IF distro \in {"redhat", "centos", "fedora", "suse", "opensuse"}
         THEN write_redhat_interfaces(interfaces, sysifs)
    ELSE Raise("False", 286)

(***************************************************************************)
(* The Writer: finish_files                                                *)
(***************************************************************************)
\* finish_files taking the paths in descending order
SortedPaths_Descending(files) ==
    LET up == Sorted({[key |-> p, val |-> p] : p \in DOMAIN files})
    IN  [i \in DOMAIN up |-> up[Len(up) + 1 - i]]

\* sorted(files_to_write.keys()) (line 293)
SortedPaths(files) == Sorted({[key |-> p, val |-> p] : p \in DOMAIN files})

\* finish_files without the test of args.noop of line 297: it writes in dry-run too
RECURSIVE WriteFiles_IgnoresNoop(_, _, _, _)
WriteFiles_IgnoresNoop(files, contents, noop, st) ==
    IF files = <<>> THEN st
    ELSE LET k == Head(files)
         IN  IF contents[k] = <<>> THEN WriteFiles_IgnoresNoop(Tail(files), contents, noop, st)
             ELSE WriteFiles_IgnoresNoop(Tail(files), contents, noop,
                          [st EXCEPT !.emitted = Append(@, <<k, contents[k]>>),
                                     !.opened = Append(@, k),
                                     !.disk = Put(@, k, contents[k])])

\* lines 294-302. st = [emitted, opened, disk]; the files are taken in the order
\* `files`, an empty content is passed over, noop prints instead of writing.
RECURSIVE WriteFiles(_, _, _, _)
WriteFiles(files, contents, noop, st) ==
    IF files = <<>> THEN st
    ELSE LET k == Head(files)
         IN  IF contents[k] = <<>> THEN WriteFiles(Tail(files), contents, noop, st)
             ELSE IF noop
                  THEN WriteFiles(Tail(files), contents, noop,
                          [st EXCEPT !.emitted = Append(@, <<k, contents[k]>>)])
             ELSE WriteFiles(Tail(files), contents, noop,
                          [st EXCEPT !.emitted = Append(@, <<k, contents[k]>>),
                                     !.opened = Append(@, k),
                                     !.disk = Put(@, k, contents[k])])

\* lines 291-302
finish_files(files, noop, st) == WriteFiles(SortedPaths(files), files, noop, st)

(***************************************************************************)
(* Documents for the normalizer: up to MaxLinks links, each a physical     *)
(* link or a VLAN link over another link id, and a network for any subset. *)
(***************************************************************************)
MaxLinks == 3

LinkIdOf(i) == IF i = 1 THEN "l1" ELSE IF i = 2 THEN "l2" ELSE IF i = 3 THEN "l3" ELSE "l4"

PhysMacOf(i) == IF i = 1 THEN MacA ELSE IF i = 2 THEN macb ELSE macc

AllLinkIds == {LinkIdOf(i) : i \in 1..MaxLinks}

PhyLink(i) == [id |-> LinkIdOf(i), type |-> "phy", ethernet_mac_address |-> PhysMacOf(i)]

VlanLinks(i) ==
    {[id |-> LinkIdOf(i), type |-> "vlan", vlan_link |-> p, vlan_id |-> 5] :
        p \in AllLinkIds \ {LinkIdOf(i)}}
    \cup
    {[id |-> LinkIdOf(i), type |-> "vlan", vlan_link |-> p, vlan_id |-> 5,
      vlan_mac_address |-> macv] : p \in AllLinkIds \ {LinkIdOf(i)}}

LinkChoices(i) == {PhyLink(i)} \cup VlanLinks(i)

LinkLists == UNION {{s \in [1..n -> UNION {LinkChoices(i) : i \in 1..n}] :
                        \A i \in 1..n : s[i] \in LinkChoices(i)} : n \in 1..MaxLinks}

DhcpNetwork(l) == [id |-> l, link |-> l, type |-> "ipv4_dhcp"]

\* one network per referenced link, listed in link id order
RECURSIVE NetworkList(_, _)
NetworkList(i, S) ==
    IF i > MaxLinks THEN <<>>
    ELSE (IF LinkIdOf(i) \in S THEN <<DhcpNetwork(LinkIdOf(i))>> ELSE <<>>)
         \o NetworkList(i + 1, S)

NormalizerDocs ==
    {[networks |-> NetworkList(1, S), links |-> ls] : S \in SUBSET AllLinkIds, ls \in LinkLists}
    \cup {EmptyDict, [networks |-> <<DhcpNetwork("l1")>>], [links |-> <<PhyLink(1)>>]}

InitNormalize ==
    /\ pc = "normalize"
    /\ net \in NormalizerDocs
    /\ visit = <<>>
    /\ normalized = Ok(EmptyDict)
    /\ args = [noop |-> FALSE, distro |-> "debian", interface |-> None]
    /\ sysfs = EmptyDict
    /\ disk = EmptyDict
    /\ todo = <<>>
    /\ x = 0
    /\ ip_up = EmptyDict
    /\ reads = EmptyDict
    /\ sys_interfaces = EmptyDict
    /\ files_to_write = EmptyDict
    /\ emitted = <<>>
    /\ opened = <<>>
    /\ runs = <<>>
    /\ raised = NoException

\* write_network_info_from_config_drive line 385
Normalize ==
    /\ pc = "normalize"
    /\ \E order \in (IF "links" \in DOMAIN net THEN Orderings(LinkIds(net)) ELSE {<<>>}) :
       \E iorder \in (IF "networks" \in DOMAIN net THEN Orderings(NetworkLinks(net)) ELSE {<<>>}) :
          /\ visit' = order
          /\ normalized' = get_config_drive_interfaces(net, order, iorder)
          /\ pc' = IF normalized'.err # "" THEN "aborted" ELSE "probe"
          /\ raised' = [err |-> normalized'.err, line |-> normalized'.line]
    /\ UNCHANGED <<net, args, sysfs, disk, todo, x, ip_up, reads, sys_interfaces,
                   files_to_write, emitted, opened, runs>>

(***************************************************************************)
(* The inputs of a run: metadata documents, /sys/class/net, the disk, args *)
(***************************************************************************)
DefaultRoute == [network |-> zeros, netmask |-> zeros, gateway |-> gw_a]

OtherRoute == [network |-> net_b, netmask |-> mask24, gateway |-> gw_b]

RouteLists == {<<>>, <<DefaultRoute>>, <<OtherRoute>>, <<OtherRoute, DefaultRoute>>}

\* a network that carries an address and routes
Network(id, link, type, routes) ==
    [id |-> id, link |-> link, type |-> type,
     ip_address |-> IF type = "ipv6" THEN ip6_a ELSE ip_a,
     netmask |-> IF type = "ipv6" THEN mask64 ELSE mask24,
     routes |-> routes]

\* a network that carries none
BareNetwork(id, link, type) == [id |-> id, link |-> link, type |-> type]

Services == <<[type |-> "dns", address |-> dns_a], [type |-> "ntp", address |-> gw_a]>>

VlanLink == [id |-> "l3", type |-> "vlan", vlan_link |-> "l1", vlan_id |-> 5,
             vlan_mac_address |-> macv]

PipelineDocs ==
    {EmptyDict,
     [networks |-> <<BareNetwork(network0, "l1", "ipv4_dhcp")>>],
     [links |-> <<PhyLink(1)>>, services |-> Services],
     [networks |-> <<Network(network0, "l1", "ipv4", <<OtherRoute, DefaultRoute>>)>>,
      links |-> <<PhyLink(1)>>, services |-> Services],
     [networks |-> <<BareNetwork(network0, "l1", "ipv4_dhcp")>>, links |-> <<PhyLink(1)>>],
     [networks |-> <<BareNetwork(network1, "l1", "ipv4_dhcp"),
                     Network(network0, "l2", "ipv6", <<DefaultRoute>>)>>,
      links |-> <<PhyLink(1), PhyLink(2)>>],
     [networks |-> <<Network(network0, "l3", "ipv4", <<DefaultRoute>>)>>,
      links |-> <<PhyLink(1), VlanLink>>]}

\* the carrier of a device: reads "1" from read number liveAt on, and before that
\* "0" (errno 0) or an IOError with the errno
Never == PollLimit + 1

Device(type, address, liveAt, errno) ==
    [addr_assign_type |-> type, address |-> address, liveAt |-> liveAt, errno |-> errno]

Eth0Devices ==
    {Device("0", maca, 0, 0), Device("0", maca, 1, 0), Device("0", maca, PollLimit, EINVAL),
     Device("0", maca, Never, 0), Device("0", maca, Never, EINVAL),
     Device("0", maca, Never, 13)}

Eth1Devices ==
    {Device("0", macb, 0, 0), Device("0", macb, Never, EINVAL), Device("3", macb, 0, 0)}

SysfsTrees ==
    {[d \in {lo, eth0, eth1} |-> IF d = lo THEN Device("0", zeros, 0, 0)
                                 ELSE IF d = eth0 THEN d0 ELSE d1] :
        d0 \in Eth0Devices, d1 \in Eth1Devices}

\* a config file that was on disk before the run
Preexisting == <<t_generated>>

\* the files the two dialects look for, for the device names of S
DiskWith(S) ==
    [p \in {eni_path \o dot_d \o slash \o n : n \in S} \cup {rh_ifcfg \o n : n \in S}
        |-> Preexisting]

ZeroCount == [d \in {lo, eth0, eth1} |-> 0]

\* how many calls of write_static_network_info in a row are followed
MaxRuns == 2

Init ==
    /\ pc = "normalize"
    /\ net \in PipelineDocs
    /\ visit = <<>>
    /\ normalized = Ok(EmptyDict)
    /\ args \in {[noop |-> n, distro |-> d, interface |-> i] :
                    n \in BOOLEAN, d \in {"debian", "redhat", "gentoo"}, i \in {None, eth0}}
    /\ sysfs \in SysfsTrees
    /\ disk \in {DiskWith(S) : S \in SUBSET {eth0, eth1}}
    /\ todo = <<>>
    /\ x = 0
    /\ ip_up = ZeroCount
    /\ reads = ZeroCount
    /\ sys_interfaces = EmptyDict
    /\ files_to_write = EmptyDict
    /\ emitted = <<>>
    /\ opened = <<>>
    /\ runs = <<>>
    /\ raised = NoException

(***************************************************************************)
(* The steps of write_network_info_from_config_drive (lines 363-388)       *)
(***************************************************************************)
\* line 386, get_sys_interfaces lines 337-346: the devices to visit, in the order
\* os.listdir gives them
GetSysInterfaces ==
    /\ pc = "probe"
    /\ todo' \in Orderings(Candidates)
    /\ sys_interfaces' = EmptyDict
    /\ pc' = "iface"
    /\ UNCHANGED <<net, visit, normalized, args, sysfs, disk, x, ip_up, reads,
                   files_to_write, emitted, opened, runs, raised>>

\* lines 348-358 for the next device, with interface_live up to line 326: the
\* device is passed over, is live at the first read, or is brought up
ProbeInterface ==
    /\ pc = "iface"
    /\ todo # <<>>
    /\ LET iface == Head(todo)
           mac == sysfs[iface].address
           live == is_interface_live(iface, reads[iface])
       IN  IF sysfs[iface].addr_assign_type # "0"
           THEN /\ todo' = Tail(todo)
                /\ UNCHANGED <<pc, reads, ip_up, sys_interfaces>>
           ELSE /\ reads' = [reads EXCEPT ![iface] = @ + 1]
                /\ IF live = "raise"
                   THEN pc' = "aborted" /\ UNCHANGED <<todo, ip_up, sys_interfaces>>
                   ELSE IF live = "True"
                   THEN /\ sys_interfaces' = Put(sys_interfaces, mac, iface)
                        /\ todo' = Tail(todo)
                        /\ UNCHANGED <<pc, ip_up>>
                   ELSE IF args.noop
                   THEN /\ todo' = Tail(todo)
                        /\ UNCHANGED <<pc, ip_up, sys_interfaces>>
                   ELSE /\ ip_up' = [ip_up EXCEPT ![iface] = @ + 1]
                        /\ pc' = "poll"
                        /\ UNCHANGED <<todo, sys_interfaces>>
    /\ x' = 0
    /\ raised' = IF pc' = "aborted" THEN [err |-> "IOError", line |-> 315] ELSE raised
    /\ UNCHANGED <<net, visit, normalized, args, sysfs, disk,
                   files_to_write, emitted, opened, runs>>

\* lines 329-332, one iteration of the poll loop
Poll ==
    /\ pc = "poll"
    /\ x < PollLimit
    /\ LET iface == Head(todo)
           live == is_interface_live(iface, reads[iface])
       IN  /\ reads' = [reads EXCEPT ![iface] = @ + 1]
           /\ IF live = "raise"
              THEN pc' = "aborted" /\ UNCHANGED <<todo, x, sys_interfaces>>
              ELSE IF live = "True"
              THEN /\ sys_interfaces' = Put(sys_interfaces, sysfs[iface].address, iface)
                   /\ todo' = Tail(todo)
                   /\ x' = 0
                   /\ pc' = "iface"
              ELSE /\ x' = x + 1
                   /\ UNCHANGED <<pc, todo, sys_interfaces>>
    /\ raised' = IF pc' = "aborted" THEN [err |-> "IOError", line |-> 315] ELSE raised
    /\ UNCHANGED <<net, visit, normalized, args, sysfs, disk, ip_up,
                   files_to_write, emitted, opened, runs>>

\* interface_live returning True when the loop of line 329 has run out
PollGiveUp_ReportsLive ==
    /\ pc = "poll"
    /\ x = PollLimit
    /\ sys_interfaces' = Put(sys_interfaces, sysfs[Head(todo)].address, Head(todo))
    /\ todo' = Tail(todo)
    /\ x' = 0
    /\ pc' = "iface"
    /\ UNCHANGED <<net, visit, normalized, args, sysfs, disk, ip_up, reads,
                   files_to_write, emitted, opened, runs, raised>>

\* lines 333-334: the loop ran out, the device is not live and is left out
PollGiveUp ==
    /\ pc = "poll"
    /\ x = PollLimit
    /\ todo' = Tail(todo)
    /\ x' = 0
    /\ pc' = "iface"
    /\ UNCHANGED <<net, visit, normalized, args, sysfs, disk, ip_up, reads,
                   sys_interfaces, files_to_write, emitted, opened, runs, raised>>

\* lines 359-360: get_sys_interfaces returns
ProbeDone ==
    /\ pc = "iface"
    /\ todo = <<>>
    /\ pc' = "render"
    /\ UNCHANGED <<net, visit, normalized, args, sysfs, disk, todo, x, ip_up, reads,
                   sys_interfaces, files_to_write, emitted, opened, runs, raised>>

\* write_static_network_info lines 271-286: the renderer's files over the dns file
Render ==
    /\ pc = "render"
    /\ \E dns \in {write_dns_info(get_dns_from_config_drive(net))},
          r \in {RenderFor(args.distro, normalized.val, sys_interfaces)} :
           /\ IF r.err = "False" THEN pc' = "done" /\ files_to_write' = dns
              ELSE IF r.err # "" THEN pc' = "aborted" /\ files_to_write' = dns
              ELSE pc' = "write" /\ files_to_write' = Update(dns, r.val)
           /\ raised' = IF r.err \notin {"", "False"}
                        THEN [err |-> r.err, line |-> r.line] ELSE raised
    /\ emitted' = <<>>
    /\ UNCHANGED <<net, visit, normalized, args, sysfs, disk, todo, x, ip_up, reads,
                   sys_interfaces, opened, runs>>

\* write_static_network_info line 288: finish_files
FinishFiles ==
    /\ pc = "write"
    /\ \E st \in {finish_files(files_to_write, args.noop,
                               [emitted |-> <<>>, opened |-> opened, disk |-> disk])} :
           /\ emitted' = st.emitted
           /\ opened' = st.opened
           /\ disk' = st.disk
           /\ runs' = Append(runs, st.emitted)
    /\ pc' = "done"
    /\ UNCHANGED <<net, visit, normalized, args, sysfs, todo, x, ip_up, reads,
                   sys_interfaces, files_to_write, raised>>

\* the renderer and the Writer run again on the same two mappings, the disk as the
\* earlier run left it
Rerun ==
    /\ pc = "done"
    /\ Len(runs) \in 1..(MaxRuns - 1)
    /\ pc' = "render"
    /\ UNCHANGED <<net, visit, normalized, args, sysfs, disk, todo, x, ip_up, reads,
                   sys_interfaces, files_to_write, emitted, opened, runs, raised>>

Next ==
    \/ Normalize
    \/ GetSysInterfaces
    \/ ProbeInterface
    \/ Poll
    \/ PollGiveUp
    \/ ProbeDone
    \/ Render
    \/ FinishFiles
    \/ Rerun

Spec == Init /\ [][Next]_vars

(***************************************************************************)
(* The renderers and the Writer on their own: the run stands where         *)
(* get_sys_interfaces has returned (line 386), for documents with every    *)
(* kind of record and every list of routes.                                *)
(***************************************************************************)
Kinds == {"ipv4", "ipv4_dhcp", "ipv6", "ipv6_slaac"}

Networks(id, link) ==
    {Network(id, link, t, r) : t \in Kinds, r \in RouteLists}
    \cup {BareNetwork(id, link, "ipv4_dhcp"), BareNetwork(id, link, "ipv6_slaac")}

\* the records of a second link: every kind with a default route, and a bare one
GatewayNetworks(id, link) ==
    {Network(id, link, t, <<DefaultRoute>>) : t \in Kinds}
    \cup {BareNetwork(id, link, "ipv4_dhcp")}

\* one link; a VLAN link over a physical link; two links, whose records sort by id
\* in the order l1, l2 or in the order l2, l1
RenderDocs ==
    {[networks |-> <<n>>, links |-> <<PhyLink(1)>>] : n \in Networks(network0, "l1")}
    \cup
    {[networks |-> <<n>>, links |-> <<[VlanLink EXCEPT !.id = "l2"], PhyLink(1)>>] :
        n \in Networks(network0, "l2")}
    \cup
    {[networks |-> <<n1, n2>>, links |-> <<PhyLink(1), PhyLink(2)>>,
      services |-> Services] :
        n1 \in Networks(network0, "l1") \cup GatewayNetworks(network2, "l1"),
        n2 \in GatewayNetworks(network1, "l2")}

\* the devices of SysfsTrees, each hardware-assigned with the carrier up, or not
\* hardware-assigned
ReadyTrees ==
    {[d \in {lo, eth0, eth1} |->
        Device(IF d \in S \cup {lo} THEN "0" ELSE "3",
               IF d = eth0 THEN maca ELSE IF d = eth1 THEN macb ELSE zeros, 0, 0)] :
        S \in SUBSET {eth0, eth1}}

\* what get_sys_interfaces returns for such a tree
ReadyInterfaces(tree) ==
    LET live == {d \in {eth0, eth1} : tree[d].addr_assign_type = "0"}
    IN  [m \in {tree[d].address : d \in live} |-> CHOOSE d \in live : tree[d].address = m]

InitRender ==
    /\ pc = "render"
    /\ net \in RenderDocs
    /\ visit \in Orderings(LinkIds(net))
    /\ \E iorder \in Orderings(NetworkLinks(net)) :
          normalized = get_config_drive_interfaces(net, visit, iorder)
    /\ normalized.err = ""
    /\ args \in {[noop |-> n, distro |-> d, interface |-> None] :
                    n \in BOOLEAN, d \in {"debian", "redhat"}}
    /\ sysfs \in ReadyTrees
    /\ disk \in {DiskWith(S) : S \in SUBSET {eth0, eth1}}
    /\ todo = <<>>
    /\ x = 0
    /\ ip_up = ZeroCount
    /\ reads = [d \in {lo, eth0, eth1} |->
                  IF d # lo /\ sysfs[d].addr_assign_type = "0" THEN 1 ELSE 0]
    /\ sys_interfaces = ReadyInterfaces(sysfs)
    /\ files_to_write = EmptyDict
    /\ emitted = <<>>
    /\ opened = <<>>
    /\ runs = <<>>
    /\ raised = NoException

NextRender ==
    \/ Render
    \/ FinishFiles
    \/ Rerun

SpecRender == InitRender /\ [][NextRender]_vars

(***************************************************************************)
(* finish_files on its own, for every mapping of a few paths to an empty   *)
(* or a non-empty content, with and without a file already on disk.        *)
(***************************************************************************)
\* "/B", "/a.d/x", "/a/b", "/ab", "/b"
WriterPaths ==
    {<<47, 66>>, <<47, 97, 46, 100, 47, 120>>,
     <<47, 97, 47, 98>>, <<47, 97, 98>>, <<47, 98>>}

WriterContents == {<<>>, <<t_auto_lo>>, <<t_auto_lo, t_iface_lo>>}

\* nothing on disk; "/a/b" on disk; "/a.d/x" and "/b" on disk
WriterDisks ==
    {[p \in S |-> Preexisting] :
        S \in {{}, {<<47, 97, 47, 98>>}, {<<47, 97, 46, 100, 47, 120>>, <<47, 98>>}}}

InitWriter ==
    /\ pc = "write"
    /\ net = EmptyDict
    /\ visit = <<>>
    /\ normalized = Ok(EmptyDict)
    /\ args \in {[noop |-> n, distro |-> "debian", interface |-> None] : n \in BOOLEAN}
    /\ sysfs = [d \in {lo} |-> Device("0", zeros, 0, 0)]
    /\ disk \in WriterDisks
    /\ todo = <<>>
    /\ x = 0
    /\ ip_up = ZeroCount
    /\ reads = ZeroCount
    /\ sys_interfaces = EmptyDict
    /\ files_to_write \in UNION {[S -> WriterContents] : S \in SUBSET WriterPaths}
    /\ emitted = <<>>
    /\ opened = <<>>
    /\ runs = <<>>
    /\ raised = NoException

NextWriter == FinishFiles

SpecWriter == InitWriter /\ [][NextWriter]_vars

NextNormalize == Normalize

SpecNormalize == InitNormalize /\ [][NextNormalize]_vars

(***************************************************************************)
(* The Prober and what follows it in one run (lines 386-388): the run       *)
(* stands where the Normalizer has returned (line 385), for a document     *)
(* without metadata and for one with a record for the first device.        *)
(***************************************************************************)
ProberDocs ==
    {EmptyDict,
     [networks |-> <<Network(network0, "l1", "ipv4", <<DefaultRoute>>)>>,
      links |-> <<PhyLink(1)>>]}

InitProber ==
    /\ pc = "probe"
    /\ net \in ProberDocs
    /\ visit \in (IF "links" \in DOMAIN net THEN Orderings(LinkIds(net)) ELSE {<<>>})
    /\ \E iorder \in (IF "networks" \in DOMAIN net THEN Orderings(NetworkLinks(net))
                       ELSE {<<>>}) :
          normalized = get_config_drive_interfaces(net, visit, iorder)
    /\ args \in {[noop |-> n, distro |-> d, interface |-> i] :
                    n \in BOOLEAN, d \in {"debian", "redhat"}, i \in {None, eth0}}
    /\ sysfs \in SysfsTrees
    /\ disk = DiskWith({})
    /\ todo = <<>>
    /\ x = 0
    /\ ip_up = ZeroCount
    /\ reads = ZeroCount
    /\ sys_interfaces = EmptyDict
    /\ files_to_write = EmptyDict
    /\ emitted = <<>>
    /\ opened = <<>>
    /\ runs = <<>>
    /\ raised = NoException

NextProber ==
    \/ GetSysInterfaces
    \/ ProbeInterface
    \/ Poll
    \/ PollGiveUp
    \/ ProbeDone
    \/ Render
    \/ FinishFiles

\* the process is scheduled until it ends: each step of the run is taken
SpecProber == InitProber /\ [][NextProber]_vars /\ WF_vars(NextProber)

(***************************************************************************)
(* What the claims speak of                                                *)
(***************************************************************************)
Interfaces == normalized.val

Debian == args.distro \in {"debian", "ubuntu"}

\* the records whose hardware address a live device has
Matched == DOMAIN Interfaces \cap DOMAIN sys_interfaces

\* the name a record is rendered under: <device> or <device>.<vlan_id>
RenderedName(mac) ==
    IF "vlan_id" \in DOMAIN Interfaces[mac]
    THEN sys_interfaces[mac] \o dot \o DecStr(Interfaces[mac].vlan_id)
    ELSE sys_interfaces[mac]

\* the interface file of a name in the dialect of the run
ConfigPath(name) == IF Debian THEN DebianPath(name) ELSE rh_ifcfg \o name

\* every path of the dialect that belongs to a name
PathsOfName(name) == IF Debian THEN {DebianPath(name)} ELSE {rh_ifcfg \o name, rh_route \o name}

VlanIds == {Interfaces[m].vlan_id : m \in {k \in DOMAIN Interfaces : "vlan_id" \in DOMAIN Interfaces[k]}}

\* the rendered files that refer to a device, as itself or as the raw device of a VLAN
FilesFor(dev) ==
    DOMAIN files_to_write
    \cap UNION ({PathsOfName(dev)} \cup {PathsOfName(dev \o dot \o DecStr(v)) : v \in VlanIds})

\* the dialect's check for a config file that is already there
PreexistingConfig(name) ==
    IF Debian THEN exists_debian_interface(name) ELSE exists_rh_interface(name)

HasPrefix(line, p) == Len(line) >= Len(p) /\ SubSeq(line, 1, Len(p)) = p

CountPrefix(lines, p) == Cardinality({i \in DOMAIN lines : HasPrefix(lines[i], p)})

AsSet(seq) == {seq[i] : i \in DOMAIN seq}

\* the kinds the dialect of the run renders from metadata
RenderedKind(t) == t \in {"ipv4", "ipv4_dhcp"} \/ (Debian /\ t = "ipv6")

StaticKind(t) == t = "ipv4" \/ (Debian /\ t = "ipv6")

(***************************************************************************)
(* C1                                                                      *)
(***************************************************************************)
\* C1 as stated: when the renderer has returned, a live device whose config file
\* was already on disk has no file in the output, metadata or not.
C1_PreexistingSuppressesAll ==
    pc = "write" =>
        \A mac \in DOMAIN sys_interfaces :
            PreexistingConfig(sys_interfaces[mac]) => FilesFor(sys_interfaces[mac]) = {}

\* C1 amended: a config file already on disk suppresses only the DHCP fallback. A
\* live device with such a file and no record of its hardware address has no file
\* in the output; one with a record of a kind the dialect renders is rendered from
\* the record all the same (metadata match > pre-existing file > DHCP fallback).
C1_PreexistingSuppressesFallback ==
    pc = "write" =>
        \A mac \in DOMAIN sys_interfaces :
            PreexistingConfig(sys_interfaces[mac]) =>
                IF mac \in DOMAIN Interfaces
                THEN RenderedKind(Interfaces[mac].type) =>
                        ConfigPath(RenderedName(mac)) \in DOMAIN files_to_write
                ELSE FilesFor(sys_interfaces[mac]) = {}

C1_Witness ==
    /\ pc = "write"
    /\ \E mac \in Matched :
          /\ PreexistingConfig(sys_interfaces[mac])
          /\ ConfigPath(RenderedName(mac)) \in DOMAIN files_to_write
    /\ \E mac \in DOMAIN sys_interfaces \ DOMAIN Interfaces :
          /\ PreexistingConfig(sys_interfaces[mac])
          /\ FilesFor(sys_interfaces[mac]) = {}

(***************************************************************************)
(* C2                                                                      *)
(***************************************************************************)
HasDefaultRoute(rec) ==
    /\ "routes" \in DOMAIN rec
    /\ \E i \in DOMAIN rec.routes :
          rec.routes[i].network = zeros /\ rec.routes[i].netmask = zeros

\* the gateway directives of a record's file: Debian 'gateway' lines, RedHat
\* DEFROUTE=yes followed by GATEWAY=
GatewayDirectives(mac) ==
    LET lines == files_to_write[ConfigPath(RenderedName(mac))]
    IN  IF Debian THEN CountPrefix(lines, t_gateway)
        ELSE Cardinality({i \in DOMAIN lines :
                 /\ lines[i] = t_DEFROUTE
                 /\ i + 1 \in DOMAIN lines
                 /\ HasPrefix(lines[i + 1], t_GATEWAY_eq)})

\* the default route as a generic route line of the record's files
GenericDefaultRoute(mac) ==
    IF Debian
    THEN LET lines == files_to_write[ConfigPath(RenderedName(mac))]
         IN  \E i \in DOMAIN lines :
                \/ HasPrefix(lines[i], t_post_up \o zeros \o t_rt_netmask \o zeros)
                \/ HasPrefix(lines[i], t_pre_down \o zeros \o t_rt_netmask \o zeros)
    ELSE /\ rh_route \o RenderedName(mac) \in DOMAIN files_to_write
         /\ LET lines == files_to_write[rh_route \o RenderedName(mac)]
            IN  \E i \in DOMAIN lines : \E n \in 0..Len(lines) :
                   /\ lines[i] = t_ADDRESS \o DecStr(n) \o t_eq \o zeros
                   /\ i + 1 \in DOMAIN lines
                   /\ lines[i + 1] = t_NETMASKx \o DecStr(n) \o t_eq \o zeros

\* C2 as stated: every matched record of kind ipv4, ipv4_dhcp or ipv6 that carries
\* a default route has a file with exactly one gateway directive and no generic
\* route line for the default route.
C2_EveryKindOneGateway ==
    pc = "write" =>
        \A mac \in Matched :
            (Interfaces[mac].type \in {"ipv4", "ipv4_dhcp", "ipv6"}
             /\ HasDefaultRoute(Interfaces[mac])) =>
                /\ ConfigPath(RenderedName(mac)) \in DOMAIN files_to_write
                /\ GatewayDirectives(mac) = 1
                /\ ~GenericDefaultRoute(mac)

\* C2 amended: the same for the records the dialect renders as static (ipv4, and in
\* the Debian dialect ipv6). An ipv4_dhcp record is rendered without any route: its
\* file has no gateway directive; a static record without a default route has none
\* either; the RedHat dialect renders no file for an ipv6 record.
C2_StaticOneGateway ==
    pc = "write" =>
        \A mac \in Matched :
            LET rec == Interfaces[mac]
                path == ConfigPath(RenderedName(mac))
            IN  /\ StaticKind(rec.type) =>
                      /\ path \in DOMAIN files_to_write
                      /\ GatewayDirectives(mac) = (IF HasDefaultRoute(rec) THEN 1 ELSE 0)
                      /\ ~GenericDefaultRoute(mac)
                /\ rec.type = "ipv4_dhcp" =>
                      /\ path \in DOMAIN files_to_write
                      /\ GatewayDirectives(mac) = 0
                      /\ ~GenericDefaultRoute(mac)
                /\ (~Debian /\ rec.type = "ipv6") => path \notin DOMAIN files_to_write

C2_Witness ==
    /\ pc = "write"
    /\ \E mac \in Matched :
          /\ StaticKind(Interfaces[mac].type)
          /\ Len(Interfaces[mac].routes) = 2
          /\ HasDefaultRoute(Interfaces[mac])
          /\ GatewayDirectives(mac) = 1
    /\ \E mac \in Matched :
          /\ Interfaces[mac].type = "ipv4_dhcp"
          /\ HasDefaultRoute(Interfaces[mac])
          /\ GatewayDirectives(mac) = 0

(***************************************************************************)
(* C8                                                                      *)
(***************************************************************************)
\* C8: in the Debian dialect a matched record whose kind is none of ipv4, ipv4_dhcp,
\* ipv6 does not abort the rendering and has no file in the output.
C8_UnknownKindSkipped ==
    (Debian /\ pc \in {"write", "done", "aborted"}) =>
        \A mac \in Matched :
            Interfaces[mac].type \notin {"ipv4", "ipv4_dhcp", "ipv6"} =>
                /\ raised.err = ""
                /\ pc = "write" => ConfigPath(RenderedName(mac)) \notin DOMAIN files_to_write

(***************************************************************************)
(* C6                                                                      *)
(***************************************************************************)
\* C6 as stated: every run of the renderer and the Writer on the same two mappings
\* emits the same paths with the same content.
C6_RunsIdentical == \A i, j \in DOMAIN runs : runs[i] = runs[j]

\* the DHCP fallback files of the RedHat dialect
RhFallbackPaths ==
    {rh_ifcfg \o sys_interfaces[m] : m \in DOMAIN sys_interfaces \ DOMAIN Interfaces}

\* C6 amended: a later run emits nothing the first run did not emit, path and
\* content. In the Debian dialect and in dry-run it emits exactly what the first
\* run emitted. In the RedHat dialect it leaves out the DHCP fallback files the
\* first run wrote, which are then on disk with the content the first run gave them.
C6_LaterRunsWithinFirst ==
    \A i \in DOMAIN runs :
        /\ AsSet(runs[i]) \subseteq AsSet(runs[1])
        /\ (Debian \/ args.noop) => runs[i] = runs[1]
        /\ \A e \in AsSet(runs[1]) \ AsSet(runs[i]) :
              /\ e[1] \in RhFallbackPaths
              /\ e[1] \in DOMAIN disk
              /\ disk[e[1]] = e[2]

C6_Witness ==
    /\ Len(runs) = 2
    /\ ~Debian
    /\ runs[2] # runs[1]
    /\ runs[2] # <<>>

(***************************************************************************)
(* C3                                                                      *)
(***************************************************************************)
\* the devices the run was asked to configure
Requested == IF args.interface = None THEN DOMAIN sysfs \ {lo} ELSE {args.interface}

\* a hardware-assigned device whose carrier never reads "1": every read gives
\* another value or fails with errno 22
NeverLive(d) ==
    /\ d \in Requested
    /\ sysfs[d].addr_assign_type = "0"
    /\ sysfs[d].liveAt > PollLimit
    /\ sysfs[d].errno \in {0, 22}

\* interface_live has returned for the device
Probed(d) == reads[d] > 0 /\ d \notin AsSet(todo)

C3_LeftOut ==
    \A d \in DOMAIN sysfs :
        (NeverLive(d) /\ ~args.noop) =>
            /\ ip_up[d] <= 1
            /\ reads[d] <= 1 + 50
            /\ Probed(d) => (ip_up[d] = 1 /\ reads[d] = 1 + 50)
            /\ d \notin Range(sys_interfaces)
            /\ (pc = "aborted" /\ raised.err = "IOError") => Head(todo) # d
            /\ pc \in {"write", "done"} => FilesFor(d) = {}

\* the run has ended: it returned, or an exception ended it
Ended == pc \in {"done", "aborted"}

\* C3: with dry-run off, a hardware-assigned device whose carrier never reads "1" is
\* brought up once, is polled 50 times and no more, is left out of the mapping and
\* of every rendered file, raises nothing, and the run comes to its end.
C3_NeverLiveLeftOut == [](C3_LeftOut) /\ <>Ended

C3_Witness ==
    /\ pc = "done"
    /\ ~args.noop
    /\ \E d \in DOMAIN sysfs :
          /\ NeverLive(d)
          /\ ip_up[d] = 1
          /\ reads[d] = 51
          /\ sysfs[d].address \in DOMAIN Interfaces
          /\ FilesFor(d) = {}
    /\ sys_interfaces # EmptyDict
    /\ runs # <<>>

(***************************************************************************)
(* C7                                                                      *)
(***************************************************************************)
LacksMetadata == "networks" \notin DOMAIN net \/ "links" \notin DOMAIN net

\* the requested hardware-assigned devices whose carrier reads "1": at the first
\* read, or with dry-run off at one of the 50 polls
LiveDevices ==
    {d \in Requested :
        /\ sysfs[d].addr_assign_type = "0"
        /\ sysfs[d].liveAt <= (IF args.noop THEN 0 ELSE PollLimit)}

Contains(lines, l) == \E i \in DOMAIN lines : lines[i] = l

\* the plain DHCP config of a device, as the claim names it
PlainDhcp(d, lines) ==
    IF Debian
    THEN lines = <<t_auto \o d, t_iface \o d \o t_inet_dhcp>>
    ELSE /\ Contains(lines, t_DEVICE \o d)
         /\ Contains(lines, t_BOOTPROTO_dhcp)
         /\ Contains(lines, t_TYPE)
         /\ Contains(lines, t_HWADDR \o sysfs[d].address)
         /\ ~Contains(lines, t_VLAN)

\* C7: a document without 'networks' or without 'links' normalizes to the empty
\* mapping without error, and the renderer output then holds, besides the Debian
\* base file, a plain DHCP config for exactly the live hardware-assigned devices
\* that have no config file on disk.
C7_DhcpOnly ==
    LacksMetadata =>
        /\ pc # "normalize" => (normalized = Ok(EmptyDict) /\ raised.err \notin {"KeyError", "AttributeError"})
        /\ pc = "write" =>
              LET out == DOMAIN files_to_write \ {resolv_conf}
                  devs == {d \in LiveDevices : ~PreexistingConfig(d)}
              IN  /\ out = (IF Debian THEN {eni_path} ELSE {}) \cup {ConfigPath(d) : d \in devs}
                  /\ \A d \in devs : PlainDhcp(d, files_to_write[ConfigPath(d)])
                  /\ \A d, e \in devs : d # e => ConfigPath(d) # ConfigPath(e)

C7_Witness ==
    /\ LacksMetadata
    /\ pc = "write"
    /\ runs = <<>>
    /\ \E d \in LiveDevices : PreexistingConfig(d)
    /\ \E d \in LiveDevices : ~PreexistingConfig(d) /\ ConfigPath(d) \in DOMAIN files_to_write

(***************************************************************************)
(* C9                                                                      *)
(***************************************************************************)
\* C9: in dry-run nothing is opened for writing and the disk stays as it was; no
\* device is brought up or polled, and a device is in the mapping exactly when its
\* one carrier read gave "1".
C9_DryRun ==
    args.noop =>
        /\ opened = <<>>
        /\ disk \in {DiskWith(S) : S \in SUBSET {eth0, eth1}}
        /\ pc # "poll"
        /\ \A d \in DOMAIN sysfs :
              /\ ip_up[d] = 0
              /\ reads[d] <= 1
              /\ (Probed(d) /\ pc # "aborted") =>
                    (d \in Range(sys_interfaces) <=> sysfs[d].liveAt = 0)

C9_Witness ==
    /\ args.noop
    /\ pc = "done"
    /\ emitted # <<>>
    /\ \E d \in DOMAIN sysfs : Probed(d) /\ d \notin Range(sys_interfaces)
    /\ \E d \in DOMAIN sysfs : Probed(d) /\ d \in Range(sys_interfaces)

(***************************************************************************)
(* C4                                                                      *)
(***************************************************************************)
\* a comes before b in lexical order
RECURSIVE Before(_, _)
Before(a, b) ==
    IF b = <<>> THEN FALSE
    ELSE IF a = <<>> THEN TRUE
    ELSE IF Head(a) # Head(b) THEN Head(a) < Head(b)
    ELSE Before(Tail(a), Tail(b))

\* C4: finish_files emits the files in strictly ascending lexical order of path,
\* each path with a non-empty content once and with that content, and a path with
\* an empty content not at all: it is not opened, not created and not truncated.
C4_SortedNoEmpty ==
    pc = "done" =>
        /\ \A i, j \in DOMAIN emitted : i < j => Before(emitted[i][1], emitted[j][1])
        /\ \A i \in DOMAIN emitted :
              /\ emitted[i][2] # <<>>
              /\ emitted[i][1] \in DOMAIN files_to_write
              /\ emitted[i][2] = files_to_write[emitted[i][1]]
        /\ \A p \in DOMAIN files_to_write :
              IF files_to_write[p] = <<>>
              THEN /\ p \notin AsSet(opened)
                   /\ p \in DOMAIN disk => disk[p] = Preexisting
              ELSE \E i \in DOMAIN emitted : emitted[i][1] = p

C4_Witness ==
    /\ pc = "done"
    /\ Len(emitted) >= 3
    /\ ~args.noop
    /\ \E p \in DOMAIN files_to_write : files_to_write[p] = <<>> /\ p \in DOMAIN disk
    /\ \E p \in DOMAIN files_to_write : files_to_write[p] = <<>> /\ p \notin DOMAIN disk

(***************************************************************************)
(* C5 and C10                                                              *)
(***************************************************************************)
LinkOf(doc, id) == CHOOSE l \in AsSet(doc.links) : l.id = id

\* the links some VLAN link names as its parent
Parents(doc) == {l.vlan_link : l \in {k \in AsSet(doc.links) : k.type = "vlan"}}

\* a document with 'networks' and 'links' in which every VLAN link has a physical
\* parent among the links, every network references a link, and every link that is
\* no parent has a network
WellFormed(doc) ==
    /\ "networks" \in DOMAIN doc
    /\ "links" \in DOMAIN doc
    /\ \A l \in AsSet(doc.links) :
          l.type = "vlan" => (l.vlan_link \in LinkIds(doc) /\ LinkOf(doc, l.vlan_link).type = "phy")
    /\ NetworkLinks(doc) \subseteq LinkIds(doc)
    /\ LinkIds(doc) \ Parents(doc) \subseteq NetworkLinks(doc)

\* the merge pass visits every VLAN link before its parent
VlanFirst ==
    \A i, j \in DOMAIN visit :
        (LinkOf(net, visit[j]).type = "vlan" /\ LinkOf(net, visit[j]).vlan_link = visit[i])
            => j < i

\* C5: normalization of such a document completes without error, and the mapping
\* has no record for a link that is the parent of a VLAN link. Stated for the
\* merge passes that visit every VLAN link before its parent; the other visit
\* orders are those of C10.
C5_MergeTotal ==
    (pc # "normalize" /\ WellFormed(net) /\ VlanFirst) =>
        /\ normalized.err = ""
        /\ \A m \in DOMAIN normalized.val : normalized.val[m].link \notin Parents(net)

\* C10: the record of a VLAN link is keyed by its parent's ethernet_mac_address in
\* lower case, whichever of the two the merge pass visits first.
C10_VlanInheritsParentMac ==
    (pc # "normalize" /\ WellFormed(net) /\ normalized.err = "") =>
        \A l \in AsSet(net.links) :
            l.type = "vlan" =>
                \E m \in DOMAIN normalized.val :
                    /\ normalized.val[m].link = l.id
                    /\ m = lower(LinkOf(net, l.vlan_link).ethernet_mac_address)

====
